---- MODULE Spec2Model ----
(***************************************************************************)
(* A model of the Exonian article-workflow bot (src/exonian_bot.py).       *)
(*                                                                         *)
(* The guild (categories, roles, channels with topic, category and         *)
(* permission overwrites), the configuration (in memory and on disk), one  *)
(* slash-command handler in flight and the 5-minute sweeper are the state. *)
(* Every handler is cut at its await points: a step is the effect of the   *)
(* awaited platform call followed by the synchronous code up to the next   *)
(* await.  Every awaited call may raise.                                   *)
(*                                                                         *)
(* Strings are sequences of one-character strings.  A datetime is a small  *)
(* natural number (naive) or such a number marked as carrying a UTC        *)
(* offset (aware); its ISO text is two digits, followed by "+" when aware. *)
(***************************************************************************)
EXTENDS Integers, Sequences, FiniteSets, TLC

VARIABLES
    cats,        \* guild.categories: category id -> name ("" when the id is unused)
    editorsRole, \* whether a role named config.editors_role_name exists in the guild
    chans,       \* the guild's text channels: id -> record
    cfgMem,      \* config.guild_id in memory (0 is None)
    cfgFile,     \* guild_id in exonian_config.json (0 is None or no file)
    now,         \* the wall clock, datetime.now()
    cmd,         \* the slash-command handler in flight
    swp,         \* the sweeper task
    issued,      \* the number of commands issued so far
    ticks,       \* the number of sweeper ticks that went past the guild check
    fin,         \* input of the pure function under check, or the channel's first overwrites
    fout         \* output of the pure function under check

vars == <<cats, editorsRole, chans, cfgMem, cfgFile, now, cmd, swp, issued, ticks,
          fin, fout>>

-----------------------------------------------------------------------------
(* Bounds *)

MaxChannels == 2
MaxCats == 4
MaxClock == 2
MaxBody == 3
MaxParts == 2
MaxNotices == 2
MaxCmds == 3
MaxTicks == 2

(* Program constants *)

MaxSlugLen == 90
YearLen == 2

-----------------------------------------------------------------------------
(* Strings *)

Rep(ch, n) == [i \in 1..n |-> ch]

Take(s, n) == IF Len(s) <= n THEN s ELSE SubSeq(s, 1, n)

\* s[i..] starts with sub
StartsAt(s, sub, i) ==
    /\ i >= 1
    /\ i + Len(sub) - 1 <= Len(s)
    /\ \A k \in 1..Len(sub) : s[i + k - 1] = sub[k]

\* str.index(sub, from): the first position >= from where sub occurs, 0 when
\* there is none (Python raises ValueError)
IndexFrom(s, sub, from) ==
    LET hits == {i \in from..Len(s) : StartsAt(s, sub, i)}
    IN  IF hits = {} THEN 0 ELSE CHOOSE i \in hits : \A j \in hits : i <= j

Contains(s, sub) == IndexFrom(s, sub, 1) # 0

\* str.strip(chars)
RECURSIVE LStrip(_, _)
LStrip(s, chars) ==
    IF s # <<>> /\ Head(s) \in chars THEN LStrip(Tail(s), chars) ELSE s

RECURSIVE RStrip(_, _)
RStrip(s, chars) ==
    IF s # <<>> /\ s[Len(s)] \in chars
    THEN RStrip(SubSeq(s, 1, Len(s) - 1), chars) ELSE s

Strip(s, chars) == RStrip(LStrip(s, chars), chars)

UpperCh == {"A", "Q"}
LowerCh == {"a", "q", "x"}
Digits == {"0", "1", "2", "3", "4", "5", "6", "7", "8", "9"}

IsAlnum(ch) == ch \in UpperCh \cup LowerCh \cup Digits
IsDigit(s) == s # <<>> /\ \A i \in 1..Len(s) : s[i] \in Digits
ToLower(ch) == IF ch = "A" THEN "a" ELSE IF ch = "Q" THEN "q" ELSE ch

DigitChar(n) == CHOOSE d \in Digits :
    d = <<"0", "1", "2", "3", "4", "5", "6", "7", "8", "9">>[n + 1]
DigitVal(d) == CHOOSE n \in 0..9 : DigitChar(n) = d

-----------------------------------------------------------------------------
(* slugify *)

\* where the run of "-" that holds position i starts
RunStart(s, i) ==
    CHOOSE j \in 1..i :
        /\ \A k \in j..i : s[k] = "-"
        /\ j = 1 \/ s[j - 1] # "-"

\* str.replace("--", "-"): one left-to-right pass over non-overlapping matches,
\* which keeps every second "-" of a run, the first one included
ReplaceDD(s) ==
    LET kept == {i \in 1..Len(s) : s[i] # "-" \/ (i - RunStart(s, i)) % 2 = 0}
    IN  [n \in 1..Cardinality(kept) |->
            s[CHOOSE i \in kept : Cardinality({j \in kept : j <= i}) = n]]

RECURSIVE Collapse(_)
Collapse(s) == IF Contains(s, <<"-", "-">>) THEN Collapse(ReplaceDD(s)) ELSE s

Truncate(s) == Take(s, MaxSlugLen)

slugify(title) ==
    LET mapped == [i \in 1..Len(title) |->
                      IF IsAlnum(title[i]) THEN ToLower(title[i]) ELSE "-"]
        s == Collapse(Strip(mapped, {"-"}))
    IN  IF s # <<>> THEN Truncate(s) ELSE <<"a", "r", "t", "i", "c", "l", "e">>

-----------------------------------------------------------------------------
(* Datetimes and the deadline codec *)

None == [kind |-> "none", t |-> 0]
Naive(t) == [kind |-> "naive", t |-> t]
Aware(t) == [kind |-> "aware", t |-> t]

\* datetime.isoformat() of a naive datetime
isoformat(t) == <<DigitChar(t \div 10), DigitChar(t % 10)>>

\* datetime.fromisoformat: None stands for ValueError
fromisoformat(s) ==
    IF Len(s) = 2 /\ IsDigit(s)
    THEN Naive(10 * DigitVal(s[1]) + DigitVal(s[2]))
    ELSE IF Len(s) = 3 /\ IsDigit(SubSeq(s, 1, 2)) /\ s[3] = "+"
         THEN Aware(10 * DigitVal(s[1]) + DigitVal(s[2]))
         ELSE None

DEADLINE_TAG == <<"[", "d", "e", "a", "d", "l", "i", "n", "e", ":", " ">>

extract_deadline_from_topic(topic) ==
    IF topic = <<>> \/ ~Contains(topic, DEADLINE_TAG) THEN None
    ELSE LET start == IndexFrom(topic, DEADLINE_TAG, 1) + Len(DEADLINE_TAG)
             end == IndexFrom(topic, <<"]">>, start)
         IN  IF end = 0 THEN None
             ELSE fromisoformat(SubSeq(topic, start, end - 1))

\* f"Article: {title} | {DEADLINE_TAG}{dt.isoformat()}]"
MakeTopic(title, dt) ==
    <<"A", "r", "t", "i", "c", "l", "e", ":", " ">> \o title \o <<" ", "|", " ">>
        \o DEADLINE_TAG \o isoformat(dt) \o <<"]">>

-----------------------------------------------------------------------------
(* parse_when.  A date text is a sequence of fields: " " (white space), a   *)
(* four-digit year "Y0"/"Y1", a numeric month and day "MD", a month name   *)
(* and day "B", a time "H0"/"H1", or "junk".                                *)

FieldKind(tok) ==
    IF tok \in {"Y0", "Y1"} THEN "Y"
    ELSE IF tok \in {"H0", "H1"} THEN "HM" ELSE tok

FieldVal(tok) == IF tok \in {"Y1", "H1"} THEN 1 ELSE 0

\* "%Y-%m-%d %H:%M", "%Y-%m-%d", "%b %d %Y %H:%M", "%b %d %H:%M"
DATE_FORMATS ==
    << <<"Y", "MD", "HM">>, <<"Y", "MD">>, <<"B", "Y", "HM">>, <<"B", "HM">> >>

\* datetime.strptime(s, fmt) succeeds
Matches(s, fmt) ==
    /\ Len(s) = Len(fmt)
    /\ \A i \in 1..Len(s) : FieldKind(s[i]) = fmt[i]

FieldOf(s, kind) ==
    LET idx == {i \in 1..Len(s) : FieldKind(s[i]) = kind}
    IN  IF idx = {} THEN 0 ELSE FieldVal(s[CHOOSE i \in idx : TRUE])

HasYear(fmt) == \E i \in 1..Len(fmt) : fmt[i] = "Y"

parse_when(text, nowv) ==
    LET s == Strip(text, {" "})
        ok == {k \in 1..Len(DATE_FORMATS) : Matches(s, DATE_FORMATS[k])}
    IN  IF ok = {} THEN None
        ELSE LET k == CHOOSE k \in ok : \A j \in ok : k <= j
                 fmt == DATE_FORMATS[k]
                 year == IF HasYear(fmt) THEN FieldOf(s, "Y") ELSE nowv \div YearLen
             IN  Naive(year * YearLen + FieldOf(s, "HM"))

-----------------------------------------------------------------------------
(* Writer mentions *)

Members == {1, 2}    \* the ids guild.get_member resolves

RECURSIVE ToInt(_)
ToInt(s) == IF s = <<>> THEN 0
            ELSE 10 * ToInt(SubSeq(s, 1, Len(s) - 1)) + DigitVal(s[Len(s)])

\* the ids of the well-formed tokens of writers.split()
MentionIds(writers) ==
    { ToInt(Strip(writers[i], {"<", "@", "!", ">"})) :
        i \in { j \in 1..Len(writers) :
                  /\ StartsAt(writers[j], <<"<", "@">>, 1)
                  /\ writers[j] # <<>> /\ writers[j][Len(writers[j])] = ">"
                  /\ IsDigit(Strip(writers[j], {"<", "@", "!", ">"})) } }

MemberTarget(uid) == IF uid = 1 THEN "m1" ELSE "m2"

-----------------------------------------------------------------------------
(* Permission overwrites.  A map is a function from some of the targets.   *)

Targets == {"everyone", "editors", "section", "m1", "m2", "obj"}

TargetKind(t) ==
    IF t \in {"everyone", "editors", "section"} THEN "Role"
    ELSE IF t \in {"m1", "m2"} THEN "Member" ELSE "Object"

Perm(v, s, h, m) == [view |-> v, send |-> s, hist |-> h, manage |-> m]

EmptyOw == [t \in {} |-> Perm("inherit", "inherit", "inherit", "inherit")]

\* a slip: the writers' entries come without read_message_history
ActiveOverwritesNoHistory(editors, uids) ==
    [t \in {"everyone"} \cup (IF editors THEN {"editors"} ELSE {})
               \cup {MemberTarget(u) : u \in uids} |->
        IF t = "everyone" THEN Perm("deny", "inherit", "inherit", "inherit")
        ELSE IF t = "editors" THEN Perm("allow", "allow", "allow", "allow")
        ELSE Perm("allow", "allow", "inherit", "inherit")]

\* new_article's overwrites
ActiveOverwrites(editors, uids) ==
    [t \in {"everyone"} \cup (IF editors THEN {"editors"} ELSE {})
               \cup {MemberTarget(u) : u \in uids} |->
        IF t = "everyone" THEN Perm("deny", "inherit", "inherit", "inherit")
        ELSE IF t = "editors" THEN Perm("allow", "allow", "allow", "allow")
        ELSE Perm("allow", "allow", "allow", "inherit")]

\* a slip: a member's view flag is taken from the entry's old send flag
ArchivedPermViewFromSend(t, old, editors) ==
    IF TargetKind(t) = "Member" THEN Perm(old.send, "deny", "allow", "inherit")
    ELSE IF TargetKind(t) = "Role"
         THEN IF editors /\ t = "editors"
              THEN Perm("allow", "allow", "allow", "inherit")
              ELSE Perm("allow", "deny", "allow", "inherit")
         ELSE Perm("allow", "deny", "inherit", "inherit")

\* the entry archiving writes for one target
ArchivedPerm(t, old, editors) ==
    IF TargetKind(t) = "Member" THEN Perm("allow", "deny", "allow", "inherit")
    ELSE IF TargetKind(t) = "Role"
         THEN IF editors /\ t = "editors"
              THEN Perm("allow", "allow", "allow", "inherit")
              ELSE Perm("allow", "deny", "allow", "inherit")
         ELSE Perm("allow", "deny", "inherit", "inherit")

\* a slip: entries that already deny sending are taken for done and left out
CleanedSkipLocked(ow, editors) ==
    LET ow1 == [t \in DOMAIN ow \cup {"everyone"} |->
                   IF t = "everyone" THEN Perm("allow", "deny", "allow", "inherit")
                   ELSE ow[t]]
    IN  [t \in {u \in DOMAIN ow1 : ow1[u].send # "deny"} |->
            ArchivedPerm(t, ow1[t], editors)]

\* overwrites = ch.overwrites; overwrites[default_role] = ...; cleaned = {...}
Cleaned(ow, editors) ==
    LET ow1 == [t \in DOMAIN ow \cup {"everyone"} |->
                   IF t = "everyone" THEN Perm("allow", "deny", "allow", "inherit")
                   ELSE ow[t]]
    IN  [t \in DOMAIN ow1 |-> ArchivedPerm(t, ow1[t], editors)]

-----------------------------------------------------------------------------
(* The guild *)

CatIds == 1..MaxCats
ChanIds == 1..MaxChannels

ActiveName == "Active Articles"
ArchivedName == "Archived Articles"

\* a slip: the lookup never finds a category
FindCatNever(name) == 0

\* discord.utils.get(guild.categories, name=...): the first match, 0 for None
FindCat(name) ==
    LET ids == {c \in CatIds : cats[c] = name}
    IN  IF ids = {} THEN 0 ELSE CHOOSE c \in ids : \A d \in ids : c <= d

FreeCat == CHOOSE c \in CatIds : cats[c] = "" /\ \A d \in CatIds : cats[d] = "" => c <= d
HasFreeCat == \E c \in CatIds : cats[c] = ""

NoChannel ==
    [exists |-> FALSE, name |-> <<>>, topic |-> <<>>, cat |-> 0, ow |-> EmptyOw,
     notices |-> 0]

FreeChan == CHOOSE c \in ChanIds :
    ~chans[c].exists /\ \A d \in ChanIds : ~chans[d].exists => c <= d
HasFreeChan == \E c \in ChanIds : ~chans[c].exists

\* category.text_channels, in position order
RECURSIVE SortedSeq(_)
SortedSeq(S) ==
    IF S = {} THEN <<>>
    ELSE LET m == CHOOSE x \in S : \A y \in S : x <= y
         IN  <<m>> \o SortedSeq(S \ {m})

TextChannels(cat) == SortedSeq({c \in ChanIds : chans[c].exists /\ chans[c].cat = cat})

-----------------------------------------------------------------------------
(* The command handler in flight *)

\* the arguments the commands are issued with
MainTitles == {<<"Q", "3">>, DEADLINE_TAG \o <<"0", "0", "+", "]">>}
MainDeadlines == {<<"Y0", "MD", "H1">>, <<"junk">>}
MainWriters ==
    {<<>>,
     << <<"<", "@", "!", "1", ">">>, <<"b", "o", "b">> >>,
     << <<"<", "@", "3", ">">> >>}

Idle ==
    [pc |-> "idle", kind |-> "none", inGuild |-> TRUE, title |-> <<>>,
     deadline |-> <<>>, dt |-> 0, writers |-> <<>>, target |-> 0,
     active |-> 0, archived |-> 0, ow |-> EmptyOw, users |-> {}, chan |-> 0,
     msg |-> ""]

\* the handlers whose body runs inside try/except
Guarded == {"new_article", "archive"}

\* what stays of the handler's frame once only its reply is left
Frame(c, pc, m) ==
    [Idle EXCEPT !.pc = pc, !.kind = c.kind, !.msg = m, !.target = c.target,
                 !.chan = c.chan, !.users = c.users]
Reply(c, m) == Frame(c, "followup_ok", m)
Caught(c) == Frame(c, "followup_err", "error")
Done(c, m) == Frame(c, "done", m)

\* the handler's code after ensure_categories has returned, up to its next await
CmdEnsured(c) ==
    CASE c.kind = "setup" ->
            IF editorsRole THEN Reply(c, "ok") ELSE [c EXCEPT !.pc = "create_role"]
      [] c.kind = "list_articles" -> Reply(c, "ok")
      [] c.kind = "new_article" ->
            LET uids == MentionIds(c.writers)
            IN  IF uids \subseteq Members
                THEN [c EXCEPT !.pc = "create_channel", !.writers = <<>>,
                               !.users = uids,
                               !.ow = ActiveOverwrites(editorsRole, uids)]
                ELSE [c EXCEPT !.pc = "fetch_member", !.writers = <<>>]
      [] c.kind = "archive" ->
            IF c.target = 0 THEN Reply(c, "input")
            ELSE [c EXCEPT !.pc = "edit_category"]

\* setup's config.save() when get_or_create_role finds the role
SavesOnEnsured(c) == c.kind = "setup" /\ editorsRole

\* ensure_categories up to its first await
EnsureLookup(c) ==
    LET c1 == [c EXCEPT !.active = FindCat(ActiveName),
                        !.archived = FindCat(ArchivedName)]
    IN  IF c1.active = 0 THEN [c1 EXCEPT !.pc = "ec_active"]
        ELSE IF c1.archived = 0 THEN [c1 EXCEPT !.pc = "ec_archived"]
        ELSE CmdEnsured(c1)

\* /ping, /sync_here, /setup or /list_articles is issued, in the guild or in a DM
CmdStartPlain ==
    /\ cmd.pc = "idle"
    /\ issued < MaxCmds
    /\ \E k \in {"ping", "sync_here", "setup", "list_articles"}, g \in BOOLEAN :
         cmd' = [Idle EXCEPT !.pc = IF k = "ping" THEN "ping_send" ELSE "defer",
                             !.kind = k, !.inGuild = g]
    /\ issued' = issued + 1
    /\ UNCHANGED <<cats, editorsRole, chans, cfgMem, cfgFile, now, swp, ticks, fin, fout>>

\* /new_article title deadline [writers]
CmdStartNewArticle ==
    /\ cmd.pc = "idle"
    /\ issued < MaxCmds
    /\ HasFreeChan
    /\ \E g \in BOOLEAN, t \in MainTitles, d \in MainDeadlines, w \in MainWriters :
         cmd' = [Idle EXCEPT !.pc = "defer", !.kind = "new_article", !.inGuild = g,
                             !.title = t, !.deadline = d, !.writers = w]
    /\ issued' = issued + 1
    /\ UNCHANGED <<cats, editorsRole, chans, cfgMem, cfgFile, now, swp, ticks, fin, fout>>

StartArchive(places, targets) ==
    /\ cmd.pc = "idle"
    /\ issued < MaxCmds
    /\ \E g \in places, ch \in targets :
         cmd' = [Idle EXCEPT !.pc = "defer", !.kind = "archive", !.inGuild = g,
                             !.target = ch]
    /\ issued' = issued + 1
    /\ UNCHANGED <<cats, editorsRole, chans, cfgMem, cfgFile, now, swp, ticks, fin, fout>>

\* /archive [channel]: target 0 is a channel that is no TextChannel
CmdStartArchive == StartArchive(BOOLEAN, {0} \cup {c \in ChanIds : chans[c].exists})

\* sync_here: interaction.response.defer returned
CmdDeferSync ==
    /\ cmd.pc = "defer" /\ cmd.kind = "sync_here"
    /\ cmd' = [cmd EXCEPT !.pc = "sync"]
    /\ UNCHANGED <<cats, editorsRole, chans, cfgMem, cfgFile, now, swp, issued, ticks, fin, fout>>

\* setup: defer returned; config.guild_id is set; ensure_categories starts
\* (in a DM interaction.guild is None: AttributeError)
CmdDeferSetup ==
    /\ cmd.pc = "defer" /\ cmd.kind = "setup"
    /\ cfgMem' = IF cmd.inGuild THEN 1 ELSE 0
    /\ cmd' = IF cmd.inGuild THEN EnsureLookup(cmd) ELSE Done(cmd, "raised")
    /\ cfgFile' = IF cmd'.pc = "followup_ok" THEN cfgMem' ELSE cfgFile
    /\ UNCHANGED <<cats, editorsRole, chans, now, swp, issued, ticks, fin, fout>>

\* list_articles: defer returned
CmdDeferList ==
    /\ cmd.pc = "defer" /\ cmd.kind = "list_articles"
    /\ cmd' = IF cmd.inGuild THEN EnsureLookup(cmd) ELSE Reply(cmd, "input")
    /\ UNCHANGED <<cats, editorsRole, chans, cfgMem, cfgFile, now, swp, issued, ticks, fin, fout>>

\* a slip: the categories are ensured before the deadline is looked at
CmdDeferNewArticleEnsureFirst ==
    /\ cmd.pc = "defer" /\ cmd.kind = "new_article"
    /\ LET dt == parse_when(cmd.deadline, now)
       IN  cmd' = IF ~cmd.inGuild THEN Reply(cmd, "input")
                  ELSE EnsureLookup([cmd EXCEPT !.dt = dt.t, !.deadline = <<>>])
    /\ UNCHANGED <<cats, editorsRole, chans, cfgMem, cfgFile, now, swp, issued, ticks, fin, fout>>

\* new_article: defer returned; the guild check; parse_when
CmdDeferNewArticle ==
    /\ cmd.pc = "defer" /\ cmd.kind = "new_article"
    /\ LET dt == parse_when(cmd.deadline, now)
       IN  cmd' = IF ~cmd.inGuild THEN Reply(cmd, "input")
                  ELSE IF dt = None THEN Reply(cmd, "deadline")
                  ELSE EnsureLookup([cmd EXCEPT !.dt = dt.t, !.deadline = <<>>])
    /\ UNCHANGED <<cats, editorsRole, chans, cfgMem, cfgFile, now, swp, issued, ticks, fin, fout>>

\* archive: defer returned
CmdDeferArchive ==
    /\ cmd.pc = "defer" /\ cmd.kind = "archive"
    /\ cmd' = IF cmd.inGuild THEN EnsureLookup(cmd) ELSE Reply(cmd, "input")
    /\ UNCHANGED <<cats, editorsRole, chans, cfgMem, cfgFile, now, swp, issued, ticks, fin, fout>>

\* guild.create_category(config.active_category_name) returned
CmdCreateActive ==
    /\ cmd.pc = "ec_active"
    /\ HasFreeCat
    /\ cats' = [cats EXCEPT ![FreeCat] = ActiveName]
    /\ LET c1 == [cmd EXCEPT !.active = FreeCat]
       IN  /\ cmd' = IF c1.archived = 0 THEN [c1 EXCEPT !.pc = "ec_archived"]
                     ELSE CmdEnsured(c1)
           /\ cfgFile' = IF c1.archived # 0 /\ SavesOnEnsured(c1) THEN cfgMem ELSE cfgFile
    /\ UNCHANGED <<editorsRole, chans, cfgMem, now, swp, issued, ticks, fin, fout>>

\* guild.create_category(config.archived_category_name) returned
CmdCreateArchived ==
    /\ cmd.pc = "ec_archived"
    /\ HasFreeCat
    /\ cats' = [cats EXCEPT ![FreeCat] = ArchivedName]
    /\ LET c1 == [cmd EXCEPT !.archived = FreeCat]
       IN  /\ cmd' = CmdEnsured(c1)
           /\ cfgFile' = IF SavesOnEnsured(c1) THEN cfgMem ELSE cfgFile
    /\ UNCHANGED <<editorsRole, chans, cfgMem, now, swp, issued, ticks, fin, fout>>

\* guild.create_role returned; config.save()
CmdCreateRole ==
    /\ cmd.pc = "create_role"
    /\ editorsRole' = TRUE
    /\ cfgFile' = cfgMem
    /\ cmd' = Reply(cmd, "ok")
    /\ UNCHANGED <<cats, chans, cfgMem, now, swp, issued, ticks, fin, fout>>

\* bot.tree.sync returned
CmdSync ==
    /\ cmd.pc = "sync"
    /\ cmd' = Reply(cmd, "ok")
    /\ UNCHANGED <<cats, editorsRole, chans, cfgMem, cfgFile, now, swp, issued, ticks, fin, fout>>

\* guild.fetch_member(uid) for an id that is no member: discord.NotFound
CmdFetchMember ==
    /\ cmd.pc = "fetch_member"
    /\ cmd' = Caught(cmd)
    /\ UNCHANGED <<cats, editorsRole, chans, cfgMem, cfgFile, now, swp, issued, ticks, fin, fout>>

\* guild.create_text_channel returned
CmdCreateChannel ==
    /\ cmd.pc = "create_channel"
    /\ HasFreeChan
    /\ chans' = [chans EXCEPT ![FreeChan] =
                   [exists |-> TRUE, name |-> slugify(cmd.title),
                    topic |-> MakeTopic(cmd.title, cmd.dt), cat |-> cmd.active,
                    ow |-> cmd.ow, notices |-> 0]]
    /\ cmd' = [cmd EXCEPT !.pc = "send_checklist", !.chan = FreeChan,
                          !.title = <<>>, !.dt = 0, !.ow = EmptyOw,
                          !.active = 0, !.archived = 0]
    /\ UNCHANGED <<cats, editorsRole, cfgMem, cfgFile, now, swp, issued, ticks, fin, fout>>

\* channel.send(checklist) returned
CmdSendChecklist ==
    /\ cmd.pc = "send_checklist"
    /\ cmd' = [cmd EXCEPT !.pc = "pin"]
    /\ UNCHANGED <<cats, editorsRole, chans, cfgMem, cfgFile, now, swp, issued, ticks, fin, fout>>

\* msg.pin() returned, or raised discord.Forbidden (pass)
CmdPin ==
    /\ cmd.pc = "pin"
    /\ cmd' = Reply(cmd, "ok")
    /\ UNCHANGED <<cats, editorsRole, chans, cfgMem, cfgFile, now, swp, issued, ticks, fin, fout>>

\* ch.edit(category=archived_cat) returned; the editors lookup and cleaned
CmdEditCategory ==
    /\ cmd.pc = "edit_category"
    /\ chans' = [chans EXCEPT ![cmd.target].cat = cmd.archived]
    /\ cmd' = [cmd EXCEPT !.pc = "edit_overwrites",
                          !.ow = Cleaned(chans[cmd.target].ow, editorsRole)]
    /\ UNCHANGED <<cats, editorsRole, cfgMem, cfgFile, now, swp, issued, ticks, fin, fout>>

\* ch.edit(overwrites=cleaned) returned
CmdEditOverwrites ==
    /\ cmd.pc = "edit_overwrites"
    /\ chans' = [chans EXCEPT ![cmd.target].ow = cmd.ow]
    /\ cmd' = Reply(cmd, "ok")
    /\ UNCHANGED <<cats, editorsRole, cfgMem, cfgFile, now, swp, issued, ticks, fin, fout>>

\* interaction.response.send_message("Pong!") returned
CmdPingSend ==
    /\ cmd.pc = "ping_send"
    /\ cmd' = Done(cmd, "ok")
    /\ UNCHANGED <<cats, editorsRole, chans, cfgMem, cfgFile, now, swp, issued, ticks, fin, fout>>

\* interaction.followup.send returned: the handler returns
CmdFollowup ==
    /\ cmd.pc \in {"followup_ok", "followup_err"}
    /\ cmd' = Done(cmd, cmd.msg)
    /\ UNCHANGED <<cats, editorsRole, chans, cfgMem, cfgFile, now, swp, issued, ticks, fin, fout>>

\* where the handler goes when the call it awaits raises: into its except
\* clause when it is inside a try block, out of the handler otherwise
OnError(c) ==
    IF c.kind \in Guarded /\ c.pc \notin {"defer", "followup_err"}
    THEN Caught(c) ELSE Done(c, "raised")

\* the awaited call raised (other than msg.pin's discord.Forbidden)
CmdFail ==
    /\ cmd.pc \in {"defer", "ping_send", "sync", "ec_active", "ec_archived",
                   "create_role", "create_channel", "send_checklist", "pin",
                   "edit_category", "edit_overwrites", "followup_ok", "followup_err"}
    /\ cmd' = OnError(cmd)
    /\ UNCHANGED <<cats, editorsRole, chans, cfgMem, cfgFile, now, swp, issued, ticks, fin, fout>>

\* the handler has returned or raised: the next command may be issued
CmdReturn ==
    /\ cmd.pc = "done"
    /\ cmd' = Idle
    /\ UNCHANGED <<cats, editorsRole, chans, cfgMem, cfgFile, now, swp, issued, ticks, fin, fout>>

-----------------------------------------------------------------------------
(* The sweeper: tasks.loop(minutes=5) *)

Asleep ==
    [pc |-> "sleep", active |-> 0, archived |-> 0, editors |-> FALSE, now |-> 0,
     list |-> <<>>, i |-> 0, ow |-> EmptyOw]

\* An exception that leaves sweeper() stops the loop: discord.ext.tasks
\* retries only connection errors.  The list and the index stay for the record.
Crashed(s) == [s EXCEPT !.pc = "crashed", !.ow = EmptyOw]

\* a slip: a deadline equal to the tick's time counts as passed
PastDueOrNow(dl, nowv) == dl.t <= nowv

\* dl < now, for a naive dl
PastDue(dl, nowv) == dl.t < nowv

\* the for loop from list index i up to its next await
RECURSIVE SwpScan(_, _)
SwpScan(s, i) ==
    IF i > Len(s.list) THEN Asleep
    ELSE LET dl == extract_deadline_from_topic(chans[s.list[i]].topic)
         IN  IF dl.kind = "none" THEN SwpScan(s, i + 1)
             ELSE IF dl.kind = "aware"
                  THEN \* dl < now: TypeError, outside the try
                       Crashed([s EXCEPT !.i = i])
                  ELSE IF PastDue(dl, s.now)
                       THEN [s EXCEPT !.pc = "notice", !.i = i, !.ow = EmptyOw]
                       ELSE SwpScan(s, i + 1)

\* lines 339-341: the editors lookup, now, the snapshot of the channel list
SwpEnsured(s) ==
    SwpScan([s EXCEPT !.editors = editorsRole, !.now = now,
                      !.list = TextChannels(s.active)], 1)

\* config.guild_id is None: the tick returns
SwpTickSkip ==
    /\ swp.pc = "sleep"
    /\ cfgMem = 0
    /\ UNCHANGED vars

\* a tick up to its first await
SwpTick ==
    /\ swp.pc = "sleep"
    /\ cfgMem # 0
    /\ ticks < MaxTicks
    /\ ticks' = ticks + 1
    /\ LET s1 == [swp EXCEPT !.active = FindCat(ActiveName),
                             !.archived = FindCat(ArchivedName)]
       IN  swp' = IF s1.active = 0 THEN [s1 EXCEPT !.pc = "ec_active"]
                  ELSE IF s1.archived = 0 THEN [s1 EXCEPT !.pc = "ec_archived"]
                  ELSE SwpEnsured(s1)
    /\ UNCHANGED <<cats, editorsRole, chans, cfgMem, cfgFile, now, cmd, issued, fin, fout>>

SwpCreateActive ==
    /\ swp.pc = "ec_active"
    /\ HasFreeCat
    /\ cats' = [cats EXCEPT ![FreeCat] = ActiveName]
    /\ LET s1 == [swp EXCEPT !.active = FreeCat]
       IN  swp' = IF s1.archived = 0 THEN [s1 EXCEPT !.pc = "ec_archived"]
                  ELSE SwpEnsured(s1)
    /\ UNCHANGED <<editorsRole, chans, cfgMem, cfgFile, now, cmd, issued, ticks, fin, fout>>

SwpCreateArchived ==
    /\ swp.pc = "ec_archived"
    /\ HasFreeCat
    /\ cats' = [cats EXCEPT ![FreeCat] = ArchivedName]
    /\ swp' = SwpEnsured([swp EXCEPT !.archived = FreeCat])
    /\ UNCHANGED <<editorsRole, chans, cfgMem, cfgFile, now, cmd, issued, ticks, fin, fout>>

\* ch.send("Deadline passed - archiving channel.") returned
SwpNotice ==
    /\ swp.pc = "notice"
    /\ chans[swp.list[swp.i]].notices < MaxNotices
    /\ chans' = [chans EXCEPT ![swp.list[swp.i]].notices = @ + 1]
    /\ swp' = [swp EXCEPT !.pc = "edit_category"]
    /\ UNCHANGED <<cats, editorsRole, cfgMem, cfgFile, now, cmd, issued, ticks, fin, fout>>

\* a slip: the move also clears the channel's topic
SwpEditCategoryDropTopic ==
    /\ swp.pc = "edit_category"
    /\ chans' = [chans EXCEPT ![swp.list[swp.i]].cat = swp.archived,
                              ![swp.list[swp.i]].topic = <<>>]
    /\ swp' = [swp EXCEPT !.pc = "edit_overwrites",
                          !.ow = Cleaned(chans[swp.list[swp.i]].ow, swp.editors)]
    /\ UNCHANGED <<cats, editorsRole, cfgMem, cfgFile, now, cmd, issued, ticks, fin, fout>>

\* ch.edit(category=archived_cat) returned; cleaned is computed
SwpEditCategory ==
    /\ swp.pc = "edit_category"
    /\ chans' = [chans EXCEPT ![swp.list[swp.i]].cat = swp.archived]
    /\ swp' = [swp EXCEPT !.pc = "edit_overwrites",
                          !.ow = Cleaned(chans[swp.list[swp.i]].ow, swp.editors)]
    /\ UNCHANGED <<cats, editorsRole, cfgMem, cfgFile, now, cmd, issued, ticks, fin, fout>>

\* ch.edit(overwrites=cleaned) returned; the loop goes on
SwpEditOverwrites ==
    /\ swp.pc = "edit_overwrites"
    /\ chans' = [chans EXCEPT ![swp.list[swp.i]].ow = swp.ow]
    /\ swp' = SwpScan(swp, swp.i + 1)
    /\ UNCHANGED <<cats, editorsRole, cfgMem, cfgFile, now, cmd, issued, ticks, fin, fout>>

\* an awaited call of the per-channel try block raised: continue
SwpFail ==
    /\ swp.pc \in {"notice", "edit_category", "edit_overwrites"}
    /\ swp' = SwpScan(swp, swp.i + 1)
    /\ UNCHANGED <<cats, editorsRole, chans, cfgMem, cfgFile, now, cmd, issued, ticks, fin, fout>>

\* guild.create_category raised inside the sweeper's ensure_categories
SwpEnsureFail ==
    /\ swp.pc \in {"ec_active", "ec_archived"}
    /\ swp' = Crashed(swp)
    /\ UNCHANGED <<cats, editorsRole, chans, cfgMem, cfgFile, now, cmd, issued, ticks, fin, fout>>

\* time passes
Advance ==
    /\ now < MaxClock
    /\ now' = now + 1
    /\ UNCHANGED <<cats, editorsRole, chans, cfgMem, cfgFile, cmd, swp, issued, ticks, fin, fout>>

-----------------------------------------------------------------------------
(* The bot after start-up in a guild it has not been set up in *)

Init ==
    /\ cats = [c \in CatIds |-> ""]
    /\ editorsRole = FALSE
    /\ chans = [c \in ChanIds |-> NoChannel]
    /\ cfgMem = 0
    /\ cfgFile = 0
    /\ now = 0
    /\ cmd = Idle
    /\ swp = Asleep
    /\ issued = 0
    /\ ticks = 0
    /\ fin = <<>>
    /\ fout = <<>>

Next ==
    \/ CmdStartPlain \/ CmdStartNewArticle \/ CmdStartArchive
    \/ CmdDeferSync \/ CmdDeferSetup \/ CmdDeferList \/ CmdDeferNewArticle
    \/ CmdDeferArchive \/ CmdCreateActive \/ CmdCreateArchived
    \/ CmdCreateRole \/ CmdSync \/ CmdFetchMember \/ CmdCreateChannel
    \/ CmdSendChecklist \/ CmdPin \/ CmdEditCategory
    \/ CmdEditOverwrites \/ CmdPingSend \/ CmdFollowup \/ CmdFail \/ CmdReturn
    \/ SwpTickSkip \/ SwpTick \/ SwpCreateActive \/ SwpCreateArchived
    \/ SwpNotice \/ SwpEditCategory \/ SwpEditOverwrites \/ SwpFail
    \/ SwpEnsureFail \/ Advance

Spec == Init /\ [][Next]_vars

-----------------------------------------------------------------------------
(* slugify alone: a title is drawn, slugify is applied *)

Quiet ==
    /\ cats = [c \in CatIds |-> ""]
    /\ editorsRole = FALSE
    /\ chans = [c \in ChanIds |-> NoChannel]
    /\ cfgMem = 0
    /\ cfgFile = 0
    /\ now = 0
    /\ cmd = Idle
    /\ swp = Asleep
    /\ issued = 0
    /\ ticks = 0

RECURSIVE SeqsUpTo(_, _)
SeqsUpTo(S, n) ==
    IF n = 0 THEN {<<>>}
    ELSE LET shorter == SeqsUpTo(S, n - 1)
         IN  shorter \cup {<<x>> \o t : x \in S, t \in shorter}

\* short titles, and titles whose normalized form reaches the truncation limit
SlugTitles ==
    {Rep("a", n) \o b : n \in {0, MaxSlugLen - 2, MaxSlugLen - 1},
                        b \in SeqsUpTo({"A", "a", "1", "-", "!"}, MaxBody)}

InitSlug == Quiet /\ fin \in SlugTitles /\ fout = <<>>

SlugApply ==
    /\ fout = <<>>
    /\ fout' = slugify(fin)
    /\ UNCHANGED <<cats, editorsRole, chans, cfgMem, cfgFile, now, cmd, swp, issued,
                   ticks, fin>>

SpecSlug == InitSlug /\ [][SlugApply]_vars

-----------------------------------------------------------------------------
(* The deadline codec alone: new_article's topic is built and decoded *)

RECURSIVE Concats(_, _)
Concats(P, n) ==
    IF n = 0 THEN {<<>>}
    ELSE LET shorter == Concats(P, n - 1)
         IN  shorter \cup {x \o t : x \in P, t \in shorter}

CodecTitles ==
    Concats({<<"x">>, <<"]">>, DEADLINE_TAG, isoformat(0), <<"+">>}, MaxParts)

InitCodec ==
    /\ Quiet
    /\ fin \in [title : CodecTitles, dt : 0..MaxClock]
    /\ fout = <<>>

CodecApply ==
    /\ fout = <<>>
    /\ fout' = <<extract_deadline_from_topic(MakeTopic(fin.title, fin.dt))>>
    /\ UNCHANGED <<cats, editorsRole, chans, cfgMem, cfgFile, now, cmd, swp, issued,
                   ticks, fin>>

SpecCodec == InitCodec /\ [][CodecApply]_vars

-----------------------------------------------------------------------------
(* Archiving alone: a guild that is set up, one past-due channel of the     *)
(* Active category with any overwrite map, /archive on that channel and the *)
(* sweeper, no call failing.  fin keeps the channel's first overwrite map.  *)

\* overwrite maps a channel can carry: any of the targets, as new_article or
\* a moderator sets them; an entry of the Editors role needs the role
PolicyMaps(editors) ==
    LET choice == [t \in Targets |->
            CASE t = "everyone" -> {"", "hidden"}
              [] t = "editors" -> IF editors THEN {"", "editor"} ELSE {""}
              [] t = "m1" -> {"", "writer", "reader"}
              [] OTHER -> {"", "writer"}]
        perm(k) == CASE k = "hidden" -> Perm("deny", "inherit", "inherit", "inherit")
                     [] k = "editor" -> Perm("allow", "allow", "allow", "allow")
                     [] k = "writer" -> Perm("allow", "allow", "allow", "inherit")
                     [] k = "reader" -> Perm("allow", "deny", "allow", "inherit")
    IN  { [t \in {u \in Targets : f[u] # ""} |-> perm(f[t])] :
            f \in {g \in [Targets -> {"", "hidden", "editor", "writer", "reader"}] :
                     \A t \in Targets : g[t] \in choice[t]} }

InitArchive ==
    /\ cats = [c \in CatIds |-> IF c = 1 THEN ActiveName
                                 ELSE IF c = 2 THEN ArchivedName ELSE ""]
    /\ editorsRole \in BOOLEAN
    /\ fin \in PolicyMaps(editorsRole)
    /\ chans = [c \in ChanIds |->
                  IF c = 1
                  THEN [exists |-> TRUE, name |-> slugify(<<"Q", "3">>),
                        topic |-> MakeTopic(<<"Q", "3">>, 1), cat |-> 1,
                        ow |-> fin, notices |-> 0]
                  ELSE NoChannel]
    /\ cfgMem = 1
    /\ cfgFile = 1
    /\ now = 2
    /\ cmd = Idle
    /\ swp = Asleep
    /\ issued = 0
    /\ ticks = 0
    /\ fout = <<>>

ArchiveStart == StartArchive({TRUE}, {1})

NextArchive ==
    \/ ArchiveStart \/ CmdDeferArchive \/ CmdEditCategory \/ CmdEditOverwrites
    \/ CmdFollowup \/ CmdReturn
    \/ SwpTick \/ SwpNotice \/ SwpEditCategory \/ SwpEditOverwrites

SpecArchive == InitArchive /\ [][NextArchive]_vars

-----------------------------------------------------------------------------
(* The sweeper and /archive on a guild that is set up and whose Active      *)
(* category holds channels with any kind of topic; the sweeper's calls may  *)
(* fail.                                                                    *)

\* no topic, an undecodable deadline, naive deadlines, a deadline with offset
SweepTopics ==
    {<<>>,
     MakeTopic(DEADLINE_TAG \o <<"x", "]">>, 0),
     MakeTopic(<<"Q", "3">>, 0),
     MakeTopic(<<"Q", "3">>, 1),
     MakeTopic(DEADLINE_TAG \o <<"0", "0", "+", "]">>, 0)}

InitSweep ==
    /\ cats = [c \in CatIds |-> IF c = 1 THEN ActiveName
                                 ELSE IF c = 2 THEN ArchivedName ELSE ""]
    /\ editorsRole \in BOOLEAN
    /\ \E tp \in [ChanIds -> SweepTopics] :
         chans = [c \in ChanIds |->
                    [exists |-> TRUE, name |-> slugify(<<"Q", "3">>),
                     topic |-> tp[c], cat |-> 1,
                     ow |-> ActiveOverwrites(editorsRole, {1}), notices |-> 0]]
    /\ cfgMem = 1
    /\ cfgFile = 1
    /\ now = 1
    /\ cmd = Idle
    /\ swp = Asleep
    /\ issued = 0
    /\ ticks = 0
    /\ fin = <<>>
    /\ fout = <<>>

SweepArchiveStart == StartArchive({TRUE}, ChanIds)

NextSweep ==
    \/ SweepArchiveStart \/ CmdDeferArchive \/ CmdEditCategory \/ CmdEditOverwrites
    \/ CmdFollowup \/ CmdReturn
    \/ SwpTick \/ SwpNotice \/ SwpEditCategory \/ SwpEditOverwrites \/ SwpFail
    \/ Advance

SpecSweep == InitSweep /\ [][NextSweep]_vars

-----------------------------------------------------------------------------
(* /new_article alone, in a guild that is set up or not, with or without    *)
(* the Editors role; every call may fail.                                   *)

InitArticle ==
    /\ \E ready \in BOOLEAN :
         cats = [c \in CatIds |-> IF ready /\ c = 1 THEN ActiveName
                                  ELSE IF ready /\ c = 2 THEN ArchivedName ELSE ""]
    /\ editorsRole \in BOOLEAN
    /\ chans = [c \in ChanIds |-> NoChannel]
    /\ cfgMem = 0
    /\ cfgFile = 0
    /\ now = 0
    /\ cmd = Idle
    /\ swp = Asleep
    /\ issued = 0
    /\ ticks = 0
    /\ fin = <<>>
    /\ fout = <<>>

NextArticle ==
    \/ CmdStartNewArticle \/ CmdDeferNewArticle \/ CmdCreateActive
    \/ CmdCreateArchived \/ CmdFetchMember \/ CmdCreateChannel
    \/ CmdSendChecklist \/ CmdPin \/ CmdFollowup \/ CmdFail \/ CmdReturn

SpecArticle == InitArticle /\ [][NextArticle]_vars

-----------------------------------------------------------------------------
(* The sweeper under fair scheduling: ticks come, and a call that is        *)
(* awaited returns; calls on the first channel may fail, calls on the       *)
(* others succeed.                                                          *)

SwpFailFirst ==
    /\ swp.pc \in {"notice", "edit_category", "edit_overwrites"}
    /\ swp.list[swp.i] = 1
    /\ SwpFail

NextSweepLive ==
    \/ SwpTick \/ SwpNotice \/ SwpEditCategory \/ SwpEditOverwrites \/ SwpFailFirst

\* the loop starts the next tick: what SwpTick does to the tick count
SwpTickBegins ==
    /\ swp.pc = "sleep"
    /\ cfgMem # 0
    /\ ticks < MaxTicks
    /\ ticks' = ticks + 1

SpecSweepLive ==
    /\ InitSweep /\ [][NextSweepLive]_vars
    /\ WF_ticks(SwpTickBegins) /\ WF_vars(SwpNotice)
    /\ WF_vars(SwpEditCategory) /\ WF_vars(SwpEditOverwrites)

-----------------------------------------------------------------------------
(* /setup run repeatedly in the guild, beside the sweeper, no call failing  *)

SetupStart ==
    /\ cmd.pc = "idle"
    /\ issued < MaxCmds
    /\ cmd' = [Idle EXCEPT !.pc = "defer", !.kind = "setup"]
    /\ issued' = issued + 1
    /\ UNCHANGED <<cats, editorsRole, chans, cfgMem, cfgFile, now, swp, ticks, fin, fout>>

NextSetup ==
    \/ SetupStart \/ CmdDeferSetup \/ CmdCreateActive \/ CmdCreateArchived
    \/ CmdCreateRole \/ CmdFollowup \/ CmdReturn
    \/ SwpTick \/ SwpCreateActive \/ SwpCreateArchived \/ Advance

SpecSetup == Init /\ [][NextSetup]_vars

-----------------------------------------------------------------------------
(* Claims *)

IsArchived(c) == chans[c].exists /\ chans[c].cat # 0 /\ cats[chans[c].cat] = ArchivedName
IsActive(c) == chans[c].exists /\ chans[c].cat # 0 /\ cats[chans[c].cat] = ActiveName

\* the Archived permission invariant of one overwrite map
Locked(ow) ==
    \A t \in DOMAIN ow :
        /\ ow[t].view = "allow"
        /\ ow[t].send = IF t = "editors" THEN "allow" ELSE "deny"

NoHandlerRunning == cmd.pc = "idle" /\ swp.pc \in {"sleep", "crashed"}

\* C1: whenever no handler is running, every channel of the Archived category
\* has send=deny on every overwrite entry but the Editors role's (send=allow)
\* and view=allow on every entry, whatever calls failed before.
C1_ArchivedIsLocked ==
    NoHandlerRunning => \A c \in ChanIds : IsArchived(c) => Locked(chans[c].ow)

\* C2: when /archive has completed successfully on a channel, @everyone has
\* send=deny, the Editors role has send=allow whenever the role exists in the
\* guild, every other entry has send=deny and every entry has view=allow.
C2_ArchivePostcondition ==
    (cmd.kind = "archive" /\ cmd.pc = "done" /\ cmd.msg = "ok") =>
        LET ow == chans[cmd.target].ow
        IN  /\ "everyone" \in DOMAIN ow
            /\ Locked(ow)
            /\ editorsRole => "editors" \in DOMAIN ow

\* the channel at list index j is past due and still waits in the Active category
DueAt(j) ==
    LET c == swp.list[j]
        dl == extract_deadline_from_topic(chans[c].topic)
    IN  dl.kind = "naive" /\ dl.t < swp.now /\ chans[c].cat = swp.active

\* C3: a failure while the sweeper processes one channel of its list never
\* aborts the tick with a past-due channel further down the list unexamined.
C3_TickContained ==
    ~(/\ swp.pc = "crashed"
      /\ swp.i >= 1
      /\ \E j \in (swp.i + 1)..Len(swp.list) : DueAt(j))

\* C4: no error raised inside a command handler leaves the handler: every
\* handler that has ended has sent its reply.
C4_HandlersReply == cmd.pc = "done" => cmd.msg # "raised"

\* C5: when new_article meets a writer id that resolves to no guild member, the
\* id is discarded and the handler goes on to create the channel.
C5_UnresolvedDiscarded ==
    [][(cmd.pc = "fetch_member" /\ cmd' # cmd) => cmd'.pc = "create_channel"]_vars

\* C6: decoding the topic new_article builds from title S and timestamp T
\* returns T, for every S.
C6_RoundTrip == fout # <<>> => fout[1] = Naive(fin.dt)

NoAlnum(title) == \A i \in 1..Len(title) : ~IsAlnum(title[i])

\* C7: slugify's result is lowercase, has no two consecutive separators, no
\* leading or trailing separator, at most 90 characters, and is "article"
\* exactly when the title holds no alphanumeric character.
C7_SlugShape ==
    fout # <<>> =>
        /\ \A i \in 1..Len(fout) : fout[i] \notin UpperCh
        /\ ~Contains(fout, <<"-", "-">>)
        /\ fout[1] # "-" /\ fout[Len(fout)] # "-"
        /\ Len(fout) <= MaxSlugLen
        /\ (fout = <<"a", "r", "t", "i", "c", "l", "e">>) <=> NoAlnum(fin)

\* C8: when the sweeper has archived a past-due article with every call
\* succeeding, the channel is in the Archived category, every writer's entry has
\* send=deny and the Editors role, if it existed when the tick began, has
\* send=allow.
C8_SweepArchives ==
    [][\A c \in ChanIds :
         (/\ swp.pc = "edit_overwrites" /\ swp.list[swp.i] = c
          /\ swp'.pc # "edit_overwrites" /\ chans'[c].ow = swp.ow) =>
            /\ cats[chans'[c].cat] = ArchivedName
            /\ \A t \in DOMAIN chans'[c].ow :
                 TargetKind(t) = "Member" => chans'[c].ow[t].send = "deny"
            /\ swp.editors =>
                 /\ "editors" \in DOMAIN chans'[c].ow
                 /\ chans'[c].ow["editors"].send = "allow"]_vars

\* C9: a second run of the archive transition on a channel /archive has already
\* archived leaves its category and its overwrite map as they are.
C9_ArchiveIdempotent ==
    [][issued >= 2 =>
         /\ chans'[1].ow = chans[1].ow
         /\ chans'[1].cat = chans[1].cat]_vars

\* the second /archive has rewritten the overwrites
C9_Witness ==
    issued = 2 /\ cmd.kind = "archive" /\ cmd.pc = "followup_ok" /\ cmd.msg = "ok"

\* C10: however /archive and the sweeper's archive of the same channel
\* interleave, both write the overwrite map one archive alone produces, and once
\* either has finished the channel is in the Archived category with that map.
C10_RaceTarget ==
    LET target == Cleaned(fin, editorsRole)
    IN  /\ cmd.pc = "edit_overwrites" => cmd.ow = target
        /\ swp.pc = "edit_overwrites" => swp.ow = target
        /\ (\/ cmd.kind = "archive" /\ cmd.pc \in {"followup_ok", "done"}
            \/ swp.pc = "sleep" /\ chans[1].notices >= 1) =>
              /\ IsArchived(1)
              /\ chans[1].ow = target

\* both have moved the channel and hold an overwrite map computed from their
\* own read, neither has written it yet
C10_Witness ==
    /\ cmd.pc = "edit_overwrites" /\ swp.pc = "edit_overwrites"
    /\ chans[1].ow = fin /\ fin # Cleaned(fin, editorsRole)

\* the deadline the topic of channel c decodes to is strictly before time t
Overdue(c, t) ==
    LET dl == extract_deadline_from_topic(chans[c].topic)
    IN  dl.kind = "naive" /\ dl.t < t

\* C11: a step of the sweeper changes a channel (sends the notice, moves it,
\* rewrites its overwrites) only if the channel's topic decodes to a deadline
\* strictly earlier than the time the tick took; a channel with no deadline, an
\* undecodable one, or one equal to or later than that time is left as it is.
C11_OnlyOverdueSwept ==
    [][\A c \in ChanIds :
         (cmd' = cmd /\ chans'[c] # chans[c]) =>
            /\ swp.pc \in {"notice", "edit_category", "edit_overwrites"}
            /\ swp.list[swp.i] = c
            /\ Overdue(c, swp.now)]_vars

\* the sweeper has sent the notice to the second channel of its list after it
\* passed over a first channel whose deadline equals the tick's time
C11_Witness ==
    /\ swp.pc = "edit_category" /\ swp.i = 2
    /\ chans[swp.list[2]].notices = 1
    /\ extract_deadline_from_topic(chans[swp.list[1]].topic) = Naive(swp.now)
    /\ chans[swp.list[1]].notices = 0 /\ chans[swp.list[1]].cat = swp.active

\* C12: when new_article's deadline text does not parse, the handler goes
\* straight on to its error reply, and from the deferral to its return it
\* creates no category, no role and no channel and posts no message.
C12_InvalidDeadline ==
    [][(cmd.kind = "new_article" /\ cmd' # cmd) =>
         /\ (/\ cmd.pc = "defer" /\ cmd.inGuild
             /\ parse_when(cmd.deadline, now) = None
             /\ cmd'.pc # "done") => cmd' = Reply(cmd, "deadline")
         /\ (\/ cmd.pc = "defer" /\ cmd.inGuild /\ parse_when(cmd.deadline, now) = None
             \/ cmd.msg = "deadline") =>
               /\ cats' = cats /\ editorsRole' = editorsRole /\ chans' = chans]_vars

\* the handler has returned after the reply that the deadline did not parse
C12_Witness ==
    cmd.kind = "new_article" /\ cmd.pc = "done" /\ cmd.msg = "deadline"

\* C14: once new_article has succeeded, the new channel is in the Active
\* category and its overwrite map has exactly these entries: @everyone with
\* view=deny, the Editors role if it exists and every resolved writer, each of
\* these with view, send and read-history allowed.
C14_NewArticleOverwrites ==
    (cmd.kind = "new_article" /\ cmd.pc \in {"followup_ok", "done"} /\ cmd.msg = "ok") =>
        LET ow == chans[cmd.chan].ow
        IN  /\ IsActive(cmd.chan)
            /\ DOMAIN ow = {"everyone"} \cup (IF editorsRole THEN {"editors"} ELSE {})
                               \cup {MemberTarget(u) : u \in cmd.users}
            /\ ow["everyone"].view = "deny"
            /\ \A t \in DOMAIN ow \ {"everyone"} :
                 ow[t].view = "allow" /\ ow[t].send = "allow" /\ ow[t].hist = "allow"

\* new_article has returned after creating a channel for one writer in a guild
\* that has the Editors role
C14_Witness ==
    /\ cmd.kind = "new_article" /\ cmd.pc = "done" /\ cmd.msg = "ok"
    /\ editorsRole /\ cmd.users = {1}
    /\ DOMAIN chans[cmd.chan].ow = {"everyone", "editors", "m1"}

\* C13: when /archive ends with the reply that its target is no text channel,
\* it has changed nothing in the guild: in particular it has created no
\* category.  (The first command issued, the sweeper not yet run: whatever
\* the guild holds, this command made.)
C13_NoMutationOnBadTarget ==
    (/\ issued = 1 /\ ticks = 0
     /\ cmd.kind = "archive" /\ cmd.target = 0 /\ cmd.msg = "input") =>
        cats = [c \in CatIds |-> ""]

\* the channel a step of the archive transition works on
ArchiveTarget(c) ==
    \/ cmd' # cmd /\ cmd.kind = "archive" /\ cmd.target = c
    \/ /\ swp' # swp /\ swp.pc \in {"notice", "edit_category", "edit_overwrites"}
       /\ swp.list[swp.i] = c

\* C15: a step of the archive transition, by /archive or by the sweeper,
\* leaves the topic and the name of every channel as they are, changes only
\* the category and the overwrites of the channel it works on (and the
\* messages posted there), and changes no other channel.
C15_ArchiveFrame ==
    [][\A c \in ChanIds :
         /\ chans'[c].topic = chans[c].topic
         /\ chans'[c].name = chans[c].name
         /\ chans'[c].exists = chans[c].exists
         /\ chans'[c] # chans[c] => ArchiveTarget(c)]_vars

\* the sweeper has archived the first channel and /archive the second, and
\* both still carry the topic they had
C15_Witness ==
    /\ IsArchived(1) /\ chans[1].notices = 1 /\ Locked(chans[1].ow)
    /\ chans[1].topic = MakeTopic(<<"Q", "3">>, 0)
    /\ cmd.kind = "archive" /\ cmd.target = 2 /\ cmd.pc = "done" /\ cmd.msg = "ok"
    /\ IsArchived(2) /\ chans[2].notices = 0 /\ Locked(chans[2].ow)
    /\ chans[2].topic = MakeTopic(<<"Q", "3">>, 1)

\* both categories and the Editors role exist
GuildReady ==
    /\ \E c \in CatIds : cats[c] = ActiveName
    /\ \E c \in CatIds : cats[c] = ArchivedName
    /\ editorsRole

\* C16: a run of /setup in a guild that already has the Active category, the
\* Archived category and the Editors role goes straight to its reply, creates
\* no category and no role, and leaves the guild and the saved configuration
\* as the first run left them.
C16_SetupIdempotent ==
    [][(cmd.kind = "setup" /\ cmd' # cmd /\ GuildReady) =>
         /\ cats' = cats /\ editorsRole' = editorsRole /\ chans' = chans
         /\ cfgFile = 1 /\ cfgFile' = cfgFile /\ cfgMem' = 1
         /\ cmd.pc = "defer" => cmd' = Reply(cmd, "ok")]_vars

\* the second /setup has returned
C16_Witness ==
    /\ issued = 2 /\ cmd.kind = "setup" /\ cmd.pc = "done" /\ cmd.msg = "ok"
    /\ GuildReady

\* C17: with sweeper ticks scheduled fairly and the calls on the channel
\* itself succeeding, a channel of the Active category whose decoded deadline
\* is in the past is eventually in the Archived category, whatever the other
\* channel's topic and failures.
C17_EventuallyArchived ==
    (Overdue(2, now) /\ IsActive(2)) ~> IsArchived(2)

\* C18: whenever no /setup is mid-execution, the configuration in memory
\* equals the one loading the persisted file would return.
C18_ConfigConsistent ==
    (cmd.kind # "setup" \/ cmd.pc \in {"idle", "done"}) => cfgMem = cfgFile

\* C19: the guild never holds two categories with the Active name or two
\* with the Archived name.
C19_OneCategoryPerName ==
    /\ Cardinality({c \in CatIds : cats[c] = ActiveName}) <= 1
    /\ Cardinality({c \in CatIds : cats[c] = ArchivedName}) <= 1

\* C20: the deadline notice is sent to a channel at most once.
C20_NoticeOnce == \A c \in ChanIds : chans[c].notices <= 1

====
